---------------------------- MODULE Spec2Model ----------------------------
(***************************************************************************)
(* Model of the IdeaPad slidebar driver, i8042-filter revision             *)
(* (src/ideapad_slidebar.c, lines 463-722), with the keyboard handler and  *)
(* the input-device setup of the IRQ revision (lines 93-198).              *)
(*                                                                         *)
(* Threads: the keyboard interrupt running slidebar_i8042_filter, and user *)
(* processes calling the sysfs attribute handlers show_slidebar_mode and   *)
(* store_slidebar_mode.  Every port access and every lock operation of the *)
(* three register functions is one step, so that concurrent callers        *)
(* interleave at the granularity of the hardware.                          *)
(***************************************************************************)
EXTENDS Integers, Sequences, FiniteSets, TLC

(* ------------------------------ bounds -------------------------------- *)

\* bytes delivered to the filter in the concurrent specification
MaxBytes == 2
\* bytes delivered to the filter in the sequential specification
MaxSeqBytes == 7
\* sysfs calls each user process makes in the concurrent specification
MaxCalls == 1
\* length of the text written to slidebar_mode in the store specification
MaxLen == 3
\* bytes fed to both keyboard handlers in the comparison of the revisions
MaxEquivBytes == 6
\* bytes delivered to the filter in the specification with CPUs
MaxCpuBytes == 3
\* sysfs calls made in all in the specification with CPUs
MaxCpuCalls == 1

(* --------------------------- program constants ------------------------ *)

SIO_SEL1_PORT == 65321
SIO_SEL2_PORT == 65322
SIO_DATA_PORT == 65323
POS_SEL1 == 244
POS_SEL2 == 191
MODE_SEL1 == 247
MODE_SEL2 == 139
SC_EXTENDED == 224
SC_MOVE == 59
SC_RELEASE == 187
EINVAL == 22
ENOMEM == 12
EBUSY == 16
ENODEV == 19

\* scancodes fed to the filter: the three the filter tests for and one
\* ordinary key (0x1c, Enter / keypad Enter after 0xe0)
Bytes == {SC_EXTENDED, SC_MOVE, SC_RELEASE, 28}
\* values the position register can hold when it is read
PosVals == {17, 255}
\* value of the mode register at load time
InitModes == {0}

IRQ == "irq"
Users == {"u1", "u2"}
Threads == {IRQ} \cup Users
Free == "free"
NoCpu == "none"

\* the module once slidebar_init of the filter revision has returned 0
Loaded ==
    [rev |-> "filter", at |-> "loaded", pdev |-> "added", pdrv |-> "registered",
     idev |-> "registered", cb |-> TRUE, err |-> 0, fn |-> "slidebar_init",
     log |-> << <<"acquire", "pdev">>, <<"acquire", "pdrv">>,
                <<"acquire", "idev">>, <<"acquire", "cb">> >>,
     checked |-> {"pdev", "idev"}, faults |-> {"unchecked_deref"}]

VARIABLES
    extended,   \* static bool extended of slidebar_i8042_filter
    touched,    \* static bool touched of slidebar_i8042_filter
    sio_lock,   \* holder of the spinlock sio_lock, or Free
    port,       \* the two select latches of the chip and who wrote them last
    hw_mode,    \* the chip's mode register
    pc,         \* position of each thread
    loc,        \* locals of the call each thread is in, and its port accesses
    out,        \* one record per byte delivered to the filter
    ncalls,     \* sysfs calls started by each user process
    irq_cpu,    \* the CPU the keyboard interrupt is being handled on, or NoCpu
    prev_scancode,  \* static int prev_scancode of the IRQ revision
    irq_touched,    \* static int touched of the IRQ revision
    out_irq,    \* one record per byte handled by kbd_irq_handler
    life        \* module load and unload: position, resources, call log

core == <<extended, touched, sio_lock, port, hw_mode, pc, loc, out, ncalls>>
irqrev == <<prev_scancode, irq_touched, out_irq>>
vars == <<core, irq_cpu, irqrev, life>>

(* ------------------------------ events -------------------------------- *)

Key(v) == [type |-> "EV_KEY", code |-> "BTN_TOUCH", value |-> v]
Abs(v) == [type |-> "EV_ABS", code |-> "ABS_X", value |-> v]
Syn == [type |-> "EV_SYN", code |-> "SYN_REPORT", value |-> 0]

IsPressed(e) == e = Key(1)
IsReleased(e) == e = Key(0)
IsAxis(e) == e.type = "EV_ABS"
IsTouchEvent(e) == e.type \in {"EV_KEY", "EV_ABS"}

(* ------------------------- register protocol --------------------------- *)

NoLocals == [fn |-> "none", buf |-> <<>>, mode |-> 0, res |-> 0,
             acc |-> <<>>, nlock |-> 0, ret |-> 0, done |-> FALSE]

Access(dir, addr, v) == [dir |-> dir, port |-> addr, value |-> v]

\* spin_lock_irqsave without the wait: the lock is taken whoever holds it
spin_lock_nowait(t) == sio_lock' = t

\* spin_lock_irqsave(&sio_lock, flags): spins until the lock is free
spin_lock_irqsave(t) ==
    /\ sio_lock = Free
    /\ sio_lock' = t

\* an exit path that leaves without releasing the lock
spin_unlock_missing(t) ==
    /\ sio_lock = t
    /\ sio_lock' = t

\* spin_unlock_irqrestore(&sio_lock, flags)
spin_unlock_irqrestore(t) ==
    /\ sio_lock = t
    /\ sio_lock' = Free

\* the first select write left out
outb_sel1_skipped(t, v) ==
    /\ port' = port
    /\ loc' = loc

\* outb(v, 0xff29)
outb_sel1(t, v) ==
    /\ port' = [port EXCEPT !.sel1 = v, !.own1 = t]
    /\ loc' = [loc EXCEPT ![t].acc = Append(@, Access("out", SIO_SEL1_PORT, v))]

\* the second select byte written to the port of the first
outb_sel2_sameport(t, v) ==
    /\ port' = [port EXCEPT !.sel1 = v, !.own1 = t]
    /\ loc' = [loc EXCEPT ![t].acc = Append(@, Access("out", SIO_SEL1_PORT, v))]

\* outb(v, 0xff2a)
outb_sel2(t, v) ==
    /\ port' = [port EXCEPT !.sel2 = v, !.own2 = t]
    /\ loc' = [loc EXCEPT ![t].acc = Append(@, Access("out", SIO_SEL2_PORT, v))]

\* what inb(0xff2b) can return: the register the two latches select
DataValues ==
    IF port.sel1 = MODE_SEL1 /\ port.sel2 = MODE_SEL2 THEN {hw_mode}
    ELSE PosVals

\* res = inb(0xff2b)
inb_data(t) ==
    \E v \in DataValues :
        loc' = [loc EXCEPT ![t].res = v,
                           ![t].acc = Append(@, Access("in", SIO_DATA_PORT, v))]

\* outb(mode, 0xff2b): the chip takes the byte into the selected register
outb_data(t, v) ==
    /\ hw_mode' = IF port.sel1 = MODE_SEL1 /\ port.sel2 = MODE_SEL2
                  THEN v ELSE hw_mode
    /\ loc' = [loc EXCEPT ![t].acc = Append(@, Access("out", SIO_DATA_PORT, v))]

Goto(t, l) == pc' = [pc EXCEPT ![t] = l]

\* unsigned char slidebar_pos_get(void), one step per statement
slidebar_pos_get(t) ==
    /\ loc[t].fn \in {"filter", "kbd_irq_handler"}
    /\ \/ /\ pc[t] = "lock"
          /\ spin_lock_irqsave(t)
          /\ loc' = [loc EXCEPT ![t].nlock = @ + 1]
          /\ Goto(t, "sel1")
          /\ UNCHANGED <<port, hw_mode>>
       \/ /\ pc[t] = "sel1"
          /\ outb_sel1(t, POS_SEL1)
          /\ Goto(t, "sel2")
          /\ UNCHANGED <<sio_lock, hw_mode>>
       \/ /\ pc[t] = "sel2"
          /\ outb_sel2(t, POS_SEL2)
          /\ Goto(t, "data")
          /\ UNCHANGED <<sio_lock, hw_mode>>
       \/ /\ pc[t] = "data"
          /\ inb_data(t)
          /\ Goto(t, "unlock")
          /\ UNCHANGED <<sio_lock, port, hw_mode>>
       \/ /\ pc[t] = "unlock"
          /\ spin_unlock_irqrestore(t)
          /\ Goto(t, "ret")
          /\ UNCHANGED <<port, hw_mode, loc>>
    /\ UNCHANGED <<extended, touched, out, ncalls>>

\* unsigned char slidebar_mode_get(void)
slidebar_mode_get(t) ==
    /\ loc[t].fn = "show"
    /\ \/ /\ pc[t] = "lock"
          /\ spin_lock_irqsave(t)
          /\ loc' = [loc EXCEPT ![t].nlock = @ + 1]
          /\ Goto(t, "sel1")
          /\ UNCHANGED <<port, hw_mode>>
       \/ /\ pc[t] = "sel1"
          /\ outb_sel1(t, MODE_SEL1)
          /\ Goto(t, "sel2")
          /\ UNCHANGED <<sio_lock, hw_mode>>
       \/ /\ pc[t] = "sel2"
          /\ outb_sel2(t, MODE_SEL2)
          /\ Goto(t, "data")
          /\ UNCHANGED <<sio_lock, hw_mode>>
       \/ /\ pc[t] = "data"
          /\ inb_data(t)
          /\ Goto(t, "unlock")
          /\ UNCHANGED <<sio_lock, port, hw_mode>>
       \/ /\ pc[t] = "unlock"
          /\ spin_unlock_irqrestore(t)
          /\ Goto(t, "ret")
          /\ UNCHANGED <<port, hw_mode, loc>>
    /\ UNCHANGED <<extended, touched, out, ncalls>>

\* void slidebar_mode_set(unsigned char mode)
slidebar_mode_set(t) ==
    /\ loc[t].fn = "store"
    /\ \/ /\ pc[t] = "lock"
          /\ spin_lock_irqsave(t)
          /\ loc' = [loc EXCEPT ![t].nlock = @ + 1]
          /\ Goto(t, "sel1")
          /\ UNCHANGED <<port, hw_mode>>
       \/ /\ pc[t] = "sel1"
          /\ outb_sel1(t, MODE_SEL1)
          /\ Goto(t, "sel2")
          /\ UNCHANGED <<sio_lock, hw_mode>>
       \/ /\ pc[t] = "sel2"
          /\ outb_sel2(t, MODE_SEL2)
          /\ Goto(t, "data")
          /\ UNCHANGED <<sio_lock, hw_mode>>
       \/ /\ pc[t] = "data"
          /\ outb_data(t, loc[t].mode % 256)
          /\ Goto(t, "unlock")
          /\ UNCHANGED <<sio_lock, port>>
       \/ /\ pc[t] = "unlock"
          /\ spin_unlock_irqrestore(t)
          /\ Goto(t, "ret")
          /\ UNCHANGED <<port, hw_mode, loc>>
    /\ UNCHANGED <<extended, touched, out, ncalls>>

(* --------------------------- scancode filter --------------------------- *)

\* the chain with the release code folded into the move test, as a test of
\* (data & 0x7f) == 0x3b would do
Branch_masked(ext, data) ==
    IF data = SC_EXTENDED THEN "prefix"
    ELSE IF ext /\ data % 128 = SC_MOVE THEN "move"
    ELSE "other"

\* the if / else-if chain of slidebar_i8042_filter
Branch(ext, data) ==
    IF data = SC_EXTENDED THEN "prefix"
    ELSE IF ext /\ data = SC_MOVE THEN "move"
    ELSE IF ext /\ data = SC_RELEASE THEN "release"
    ELSE "other"

\* a filter that swallows the 0xe0 prefix
FilterReturn_prefix(br) == br = "prefix"

\* the value of the return statement each branch reaches
FilterReturn(br) == FALSE

\* the press reported on every move
TouchDown_always(tch) == <<Key(1)>>

\* the press reported with the test of touched inverted
TouchDown_inverted(tch) == IF tch THEN <<Key(1)>> ELSE <<>>

\* if (!touched) input_report_key(slidebar_input_dev, BTN_TOUCH, 1);
TouchDown(tch) == IF ~tch THEN <<Key(1)>> ELSE <<>>

\* the axis event reported with the key value instead of the position
MoveReport_const(v) == <<Abs(1), Syn>>

\* input_report_abs(dev, ABS_X, <value of slidebar_pos_get()>); input_sync(dev);
MoveReport(v) == <<Abs(v), Syn>>

\* the release reported with the value of a press
ReleaseReport_pressed == <<Key(1), Syn>>

\* input_report_key(dev, BTN_TOUCH, 0); input_sync(dev);
ReleaseReport == <<Key(0), Syn>>

\* the return value of slidebar_pos_get: int res returned as unsigned char
PosResult(res) == res % 256

NewBatch(data) ==
    [data |-> data, ext0 |-> extended, tch0 |-> touched, br |-> Branch(extended, data),
     evs |-> <<>>, reads |-> <<>>, acc |-> <<>>, nlock |-> 0,
     done |-> FALSE, ret |-> FALSE, ext1 |-> extended, tch1 |-> touched]

Finish(b, ext, tch) ==
    [b EXCEPT !.done = TRUE, !.ret = FilterReturn(b.br), !.ext1 = ext, !.tch1 = tch]

\* the filter with the position read deferred: the move branch returns at
\* once and the read is made after the handler has returned
slidebar_i8042_filter_deferred(data) ==
    /\ LET b == NewBatch(data) IN
       CASE b.br = "prefix" ->
              /\ extended' = TRUE
              /\ out' = Append(out, Finish(b, TRUE, touched))
              /\ UNCHANGED <<touched, pc, loc>>
         [] b.br = "move" ->
              /\ extended' = FALSE
              /\ touched' = TRUE
              /\ out' = Append(out, Finish([b EXCEPT !.evs = TouchDown(touched)],
                                           FALSE, TRUE))
              /\ loc' = [loc EXCEPT ![IRQ] = [NoLocals EXCEPT !.fn = "filter"]]
              /\ Goto(IRQ, "lock")
         [] b.br = "release" ->
              /\ touched' = FALSE
              /\ out' = Append(out, Finish([b EXCEPT !.evs = ReleaseReport],
                                           extended, FALSE))
              /\ UNCHANGED <<extended, pc, loc>>
         [] OTHER ->
              /\ out' = Append(out, Finish(b, extended, touched))
              /\ UNCHANGED <<extended, touched, pc, loc>>
    /\ UNCHANGED <<sio_lock, port, hw_mode, ncalls>>

\* slidebar_i8042_filter(data, str, port), from entry to its return or, on
\* a move, to the call of slidebar_pos_get
slidebar_i8042_filter(data) ==
    /\ pc[IRQ] = "idle"
    /\ LET b == NewBatch(data) IN
       CASE b.br = "prefix" ->
              /\ extended' = TRUE
              /\ out' = Append(out, Finish(b, TRUE, touched))
              /\ UNCHANGED <<touched, pc, loc>>
         [] b.br = "move" ->
              /\ extended' = FALSE
              /\ touched' = TRUE
              /\ out' = Append(out, [b EXCEPT !.evs = TouchDown(touched)])
              /\ loc' = [loc EXCEPT ![IRQ] = [NoLocals EXCEPT !.fn = "filter"]]
              /\ Goto(IRQ, "lock")
         [] b.br = "release" ->
              /\ touched' = FALSE
              /\ out' = Append(out, Finish([b EXCEPT !.evs = ReleaseReport],
                                           extended, FALSE))
              /\ UNCHANGED <<extended, pc, loc>>
         [] OTHER ->
              /\ out' = Append(out, Finish(b, extended, touched))
              /\ UNCHANGED <<extended, touched, pc, loc>>
    /\ UNCHANGED <<sio_lock, port, hw_mode, ncalls>>

\* the rest of the move branch, once slidebar_pos_get has returned
filter_move_report ==
    /\ pc[IRQ] = "ret"
    /\ loc[IRQ].fn = "filter"
    /\ LET n == Len(out)
           v == PosResult(loc[IRQ].res)
           b == [out[n] EXCEPT !.evs = @ \o MoveReport(v),
                               !.reads = Append(@, v),
                               !.acc = loc[IRQ].acc,
                               !.nlock = loc[IRQ].nlock]
       IN out' = [out EXCEPT ![n] = Finish(b, extended, touched)]
    /\ loc' = [loc EXCEPT ![IRQ].done = TRUE]
    /\ Goto(IRQ, "idle")
    /\ UNCHANGED <<extended, touched, sio_lock, port, hw_mode, ncalls>>

(* -------------------- keyboard handler, IRQ revision ------------------- *)

\* kbd_irq_handler(irq, dev_id, regs), from entry to its return or, on a
\* move, to the call of slidebar_pos_get; scancode is the byte inb(0x60)
\* returns
kbd_irq_handler(scancode) ==
    /\ pc[IRQ] = "idle"
    /\ LET b == [data |-> scancode, prev0 |-> prev_scancode,
                 tch0 |-> irq_touched, evs |-> <<>>, reads |-> <<>>,
                 acc |-> <<>>, nlock |-> 0, done |-> TRUE]
       IN
       IF scancode = SC_RELEASE
       THEN /\ irq_touched' = FALSE
            /\ out_irq' = Append(out_irq, [b EXCEPT !.evs = <<Key(0), Syn>>])
            /\ prev_scancode' = scancode
            /\ UNCHANGED <<pc, loc>>
       ELSE IF prev_scancode = SC_EXTENDED /\ scancode = SC_MOVE
       THEN /\ irq_touched' = TRUE
            /\ out_irq' = Append(out_irq,
                   [b EXCEPT !.evs = IF ~irq_touched THEN <<Key(1)>> ELSE <<>>,
                             !.done = FALSE])
            /\ loc' = [loc EXCEPT ![IRQ] =
                          [NoLocals EXCEPT !.fn = "kbd_irq_handler"]]
            /\ Goto(IRQ, "lock")
            /\ UNCHANGED prev_scancode
       ELSE /\ out_irq' = Append(out_irq, b)
            /\ prev_scancode' = scancode
            /\ UNCHANGED <<irq_touched, pc, loc>>
    /\ UNCHANGED <<extended, touched, sio_lock, port, hw_mode, out, ncalls>>

\* the rest of the move branch once slidebar_pos_get has returned:
\* input_report_abs, input_sync, prev_scancode = scancode
kbd_irq_move_report ==
    /\ pc[IRQ] = "ret"
    /\ loc[IRQ].fn = "kbd_irq_handler"
    /\ LET n == Len(out_irq)
           v == loc[IRQ].res
       IN /\ out_irq' = [out_irq EXCEPT ![n] =
                            [@ EXCEPT !.evs = @ \o <<Abs(v), Syn>>,
                                      !.reads = <<v>>,
                                      !.acc = loc[IRQ].acc,
                                      !.nlock = loc[IRQ].nlock,
                                      !.done = TRUE]]
          /\ prev_scancode' = out_irq[n].data
    /\ loc' = [loc EXCEPT ![IRQ].done = TRUE]
    /\ Goto(IRQ, "idle")
    /\ UNCHANGED <<extended, touched, sio_lock, port, hw_mode, out, ncalls,
                   irq_touched>>

(* ------------------------------ sysfs ---------------------------------- *)

XDigits == <<"0", "1", "2", "3", "4", "5", "6", "7", "8", "9",
             "a", "b", "c", "d", "e", "f">>
XDigitsUpper == <<"0", "1", "2", "3", "4", "5", "6", "7", "8", "9",
                  "A", "B", "C", "D", "E", "F">>

\* isspace() of the kernel's ctype table: space, \t, \n, \v, \f, \r and 0xa0
IsSpace(c) == c \in {" ", "\t", "\n", "", "\f", "\r", " "}
IsXDigit(c) == \E i \in 1..16 : XDigits[i] = c \/ XDigitsUpper[i] = c
XVal(c) == (CHOOSE i \in 1..16 : XDigits[i] = c \/ XDigitsUpper[i] = c) - 1

RECURSIVE skip_spaces(_)
skip_spaces(s) ==
    IF s # <<>> /\ IsSpace(Head(s)) THEN skip_spaces(Tail(s)) ELSE s

\* the digits of a base-16 number are read until the first other character
RECURSIVE parse_integer(_, _)
parse_integer(s, acc) ==
    IF s # <<>> /\ IsXDigit(Head(s))
    THEN parse_integer(Tail(s), acc * 16 + XVal(Head(s)))
    ELSE acc

\* simple_strtoul(str, &next, 16): an optional 0x, then the digits
simple_strtoul(s) ==
    IF Len(s) >= 2 /\ s[1] = "0" /\ s[2] \in {"x", "X"}
    THEN parse_integer(SubSeq(s, 3, Len(s)), 0)
    ELSE parse_integer(s, 0)

\* sscanf(buf, "%x", &mode): the number of conversions and the value stored.
\* A text of at most 7 digits fits the 32-bit int it is stored in unchanged.
sscanf_x(buf) ==
    LET s == skip_spaces(buf) IN
    IF s = <<>> \/ ~IsXDigit(Head(s))
    THEN [n |-> 0, val |-> 0]
    ELSE [n |-> 1, val |-> simple_strtoul(s)]

\* store_slidebar_mode(dev, attr, buf, count) up to its first return or to
\* the call of slidebar_mode_set
store_slidebar_mode(u, buf) ==
    /\ pc[u] = "idle"
    /\ ncalls[u] < MaxCalls
    /\ ncalls' = [ncalls EXCEPT ![u] = @ + 1]
    /\ LET count == Len(buf)
           l == [NoLocals EXCEPT !.fn = "store", !.buf = buf]
       IN
       IF count = 0
       THEN /\ loc' = [loc EXCEPT ![u] = [l EXCEPT !.ret = 0, !.done = TRUE]]
            /\ UNCHANGED pc
       ELSE IF sscanf_x(buf).n # 1
       THEN /\ loc' = [loc EXCEPT ![u] = [l EXCEPT !.ret = -EINVAL, !.done = TRUE]]
            /\ UNCHANGED pc
       ELSE /\ loc' = [loc EXCEPT ![u] = [l EXCEPT !.mode = sscanf_x(buf).val]]
            /\ Goto(u, "lock")
    /\ UNCHANGED <<extended, touched, sio_lock, port, hw_mode, out>>

\* return count;
store_return(u) ==
    /\ pc[u] = "ret"
    /\ loc[u].fn = "store"
    /\ loc' = [loc EXCEPT ![u].ret = Len(loc[u].buf), ![u].done = TRUE]
    /\ Goto(u, "idle")
    /\ UNCHANGED <<extended, touched, sio_lock, port, hw_mode, out, ncalls>>

\* the digits sprintf's %x writes for v
RECURSIVE ToHex(_)
ToHex(v) == IF v < 16 THEN <<XDigits[v + 1]>>
            ELSE Append(ToHex(v \div 16), XDigits[(v % 16) + 1])

\* show_slidebar_mode(dev, attr, buf) up to the call of slidebar_mode_get
show_slidebar_mode(u) ==
    /\ pc[u] = "idle"
    /\ ncalls[u] < MaxCalls
    /\ ncalls' = [ncalls EXCEPT ![u] = @ + 1]
    /\ loc' = [loc EXCEPT ![u] = [NoLocals EXCEPT !.fn = "show"]]
    /\ Goto(u, "lock")
    /\ UNCHANGED <<extended, touched, sio_lock, port, hw_mode, out>>

\* return sprintf(buf, "%x\n", <value of slidebar_mode_get()>);
show_return(u) ==
    /\ pc[u] = "ret"
    /\ loc[u].fn = "show"
    /\ LET text == Append(ToHex(loc[u].res % 256), "\n") IN
       loc' = [loc EXCEPT ![u].buf = text, ![u].ret = Len(text), ![u].done = TRUE]
    /\ Goto(u, "idle")
    /\ UNCHANGED <<extended, touched, sio_lock, port, hw_mode, out, ncalls>>

(* --------------------------- specifications ---------------------------- *)

\* text a user process writes to slidebar_mode
Chars == {"0", "1", "9", "f", "g", "x", "\n", "\r"}

RECURSIVE Strings(_)
Strings(n) ==
    IF n = 0 THEN {<<>>}
    ELSE LET S == Strings(n - 1) IN
         S \cup {Append(s, c) : s \in {x \in S : Len(x) = n - 1}, c \in Chars}

AllInputs == Strings(MaxLen)

\* the inputs of the specification's examples, and the empty write
SampleInputs == {<<>>, <<"1">>, <<"9", "9">>, <<"g", "g">>, <<"1", "0", "0">>}

Init ==
    /\ extended = FALSE
    /\ touched = FALSE
    /\ sio_lock = Free
    /\ port = [sel1 |-> 0, sel2 |-> 0, own1 |-> Free, own2 |-> Free]
    /\ hw_mode \in InitModes
    /\ pc = [t \in Threads |-> "idle"]
    /\ loc = [t \in Threads |-> NoLocals]
    /\ out = <<>>
    /\ ncalls = [u \in Users |-> 0]
    /\ irq_cpu = NoCpu
    /\ prev_scancode = 0
    /\ irq_touched = FALSE
    /\ out_irq = <<>>
    /\ life = Loaded

\* the interrupt and the user processes, interleaved
Next ==
    /\ UNCHANGED <<irq_cpu, irqrev, life>>
    /\ \/ \E b \in Bytes : Len(out) < MaxBytes /\ slidebar_i8042_filter(b)
       \/ slidebar_pos_get(IRQ)
       \/ filter_move_report
       \/ \E u \in Users : show_slidebar_mode(u)
       \/ \E u \in Users : slidebar_mode_get(u)
       \/ \E u \in Users : show_return(u)
       \/ \E u \in Users, buf \in SampleInputs : store_slidebar_mode(u, buf)
       \/ \E u \in Users : slidebar_mode_set(u)
       \/ \E u \in Users : store_return(u)

Spec == Init /\ [][Next]_vars

\* the filter alone, fed a longer byte sequence
NextFilter ==
    /\ UNCHANGED <<irq_cpu, irqrev, life>>
    /\ \/ \E b \in Bytes : Len(out) < MaxSeqBytes /\ slidebar_i8042_filter(b)
       \/ slidebar_pos_get(IRQ)
       \/ filter_move_report

SpecFilter == Init /\ [][NextFilter]_vars

\* one user process writing every text up to MaxLen characters
NextStore ==
    /\ UNCHANGED <<irq_cpu, irqrev, life>>
    /\ \/ \E buf \in AllInputs : store_slidebar_mode("u1", buf)
       \/ slidebar_mode_set("u1")
       \/ store_return("u1")

SpecStore == Init /\ [][NextStore]_vars

(* ------------------------- history of the filter ----------------------- *)

Idx == 1..Len(out)
DoneIdx == {i \in Idx : out[i].done}

\* byte i arrived immediately after a 0xe0 byte
AfterPrefix(i) == i > 1 /\ out[i - 1].data = SC_EXTENDED

RECURSIVE Count(_, _)
Count(seq, e) ==
    IF seq = <<>> THEN 0
    ELSE (IF Head(seq) = e THEN 1 ELSE 0) + Count(Tail(seq), e)

RECURSIVE CountAxis(_)
CountAxis(seq) ==
    IF seq = <<>> THEN 0
    ELSE (IF IsAxis(Head(seq)) THEN 1 ELSE 0) + CountAxis(Tail(seq))

\* the events emitted while bytes i..j were handled, in order
RECURSIVE EventsOf(_, _)
EventsOf(i, j) == IF i > j THEN <<>> ELSE out[i].evs \o EventsOf(i + 1, j)

TouchStream == SelectSeq(EventsOf(1, Len(out)), IsTouchEvent)

HasGesture(b) == \E k \in 1..Len(b.evs) : IsTouchEvent(b.evs[k])

\* bytes i .. i+2n+1 are n pairs e0 3b followed by e0 bb
IsRun(i, n) ==
    /\ i + 2 * n + 1 <= Len(out)
    /\ \A k \in 0..(n - 1) : /\ out[i + 2 * k].data = SC_EXTENDED
                             /\ out[i + 2 * k + 1].data = SC_MOVE
    /\ out[i + 2 * n].data = SC_EXTENDED
    /\ out[i + 2 * n + 1].data = SC_RELEASE
    /\ out[i + 2 * n + 1].done

(* -------------------------------- claims ------------------------------- *)

\* C1: a gesture is emitted while handling a byte only if that byte is 0x3b
\* or 0xbb and the byte before it was 0xe0; the extended flag seen by a byte
\* is set only if the byte before it was 0xe0.
C1_GestureOnlyAfterPrefix ==
    \A i \in Idx :
        /\ HasGesture(out[i]) =>
              out[i].data \in {SC_MOVE, SC_RELEASE} /\ AfterPrefix(i)
        /\ out[i].ext0 => AfterPrefix(i)

\* C2: n >= 1 pairs e0 3b followed by e0 bb, starting untouched, emit exactly
\* one pressed event, on the first move, n axis events and one released event.
C2_PressedOncePerRun ==
    \A i \in Idx : \A n \in 1..Len(out) :
        (IsRun(i, n) /\ ~out[i].tch0) =>
            LET evs == EventsOf(i, i + 2 * n + 1) IN
            /\ Count(evs, Key(1)) = 1
            /\ Count(out[i + 1].evs, Key(1)) = 1
            /\ CountAxis(evs) = n
            /\ Count(evs, Key(0)) = 1

C2_Witness ==
    \E i \in Idx : IsRun(i, 2) /\ ~out[i].tch0

\* C3: a 0x3b immediately after 0xe0 calls slidebar_pos_get once and emits one
\* batch: pressed iff the state was untouched, one axis event carrying the
\* byte that call read from the data port, one sync; then touched is true
\* and extended is false.
C3_MoveBatch ==
    \A i \in DoneIdx :
        (out[i].data = SC_MOVE /\ AfterPrefix(i)) =>
            /\ Len(out[i].reads) = 1
            /\ out[i].nlock = 1
            /\ out[i].reads[1] \in 0..255
            /\ Len(out[i].acc) = 3
            /\ out[i].acc[3] = Access("in", SIO_DATA_PORT, out[i].reads[1])
            /\ out[i].evs = (IF out[i].tch0 THEN <<>> ELSE <<Key(1)>>)
                            \o <<Abs(out[i].reads[1]), Syn>>
            /\ out[i].tch1
            /\ ~out[i].ext1

C3_Witness ==
    \E i \in DoneIdx : \E j \in DoneIdx :
        /\ out[i].data = SC_MOVE /\ AfterPrefix(i) /\ ~out[i].tch0
        /\ out[j].data = SC_MOVE /\ AfterPrefix(j) /\ out[j].tch0
        /\ out[i].reads # out[j].reads

\* C4: a 0xbb immediately after 0xe0 emits one released event and one sync and
\* clears touched, with no position read and no lock taken; the data port is
\* read only while a move byte is handled.
C4_ReleaseBatch ==
    /\ \A i \in DoneIdx :
          (out[i].data = SC_RELEASE /\ AfterPrefix(i)) =>
              /\ out[i].evs = <<Key(0), Syn>>
              /\ ~out[i].tch1
              /\ out[i].reads = <<>>
              /\ out[i].acc = <<>>
              /\ out[i].nlock = 0
    /\ \A i \in Idx :
          (out[i].reads # <<>> \/ out[i].acc # <<>> \/ out[i].nlock > 0)
              => out[i].data = SC_MOVE
    /\ (pc[IRQ] # "idle" \/ sio_lock = IRQ) =>
          (out # <<>> /\ out[Len(out)].data = SC_MOVE)

C4_Witness ==
    \E i \in DoneIdx :
        out[i].data = SC_RELEASE /\ AfterPrefix(i) /\ out[i].tch0

\* a byte the filter recognises as a slidebar follow-up
Recognized(b) == b.ext0 /\ b.data \in {SC_MOVE, SC_RELEASE}

\* C5: a byte that is not a recognised follow-up is never suppressed and
\* emits no event; 0xe0 followed by another byte passes both bytes on.
C5_UnrecognizedPassed ==
    \A i \in DoneIdx :
        ~Recognized(out[i]) => (out[i].ret = FALSE /\ out[i].evs = <<>>)

C5_Witness ==
    \E i \in DoneIdx :
        /\ AfterPrefix(i) /\ out[i - 1].done
        /\ out[i].data \notin {SC_EXTENDED, SC_MOVE, SC_RELEASE}
        /\ out[i].ext0

\* C6: the filter returns true for a recognised follow-up byte.
C6_FollowUpSuppressed ==
    \A i \in DoneIdx : Recognized(out[i]) => out[i].ret = TRUE

\* the touch events read as press, axis, axis*, release: "bad" once the
\* stream leaves the grammar.  strict: a release needs an open episode.
RECURSIVE Grammar(_, _, _)
Grammar(seq, st, strict) ==
    IF seq = <<>> \/ st = "bad" THEN st
    ELSE LET e == Head(seq)
             nx == CASE st = "up" /\ IsPressed(e) -> "pressed"
                     [] st = "up" /\ IsReleased(e) /\ ~strict -> "up"
                     [] st = "pressed" /\ IsAxis(e) -> "down"
                     [] st = "down" /\ IsAxis(e) -> "down"
                     [] st = "down" /\ IsReleased(e) -> "up"
                     [] OTHER -> "bad"
         IN Grammar(Tail(seq), nx, strict)

\* C10 as stated: the touch events match (pressed, axis, axis*, released)*,
\* so a released event is emitted only while a touch episode is open.
C10_StrictGrammar == Grammar(TouchStream, "up", TRUE) # "bad"

\* C10 as amended: a pressed event is emitted only when no episode is open
\* and is followed by an axis event, an axis event only inside an episode;
\* a released event is emitted on every recognised release byte, also with
\* no episode open.
C10_PressDeduplicated == Grammar(TouchStream, "up", FALSE) # "bad"

C10_Witness ==
    /\ Len(TouchStream) >= 5
    /\ IsReleased(TouchStream[1])
    /\ \E k \in 2..Len(TouchStream) :
          IsReleased(TouchStream[k]) /\ IsAxis(TouchStream[k - 1])

\* the two select codes of the register function thread t is in
SelectCodes(t) ==
    IF loc[t].fn = "filter" THEN <<POS_SEL1, POS_SEL2>>
    ELSE <<MODE_SEL1, MODE_SEL2>>

\* C7: the port accesses of one register operation are never interleaved
\* with those of another: at most one thread is at a port access, and a data
\* access finds both select latches as its own operation wrote them.
C7_NoInterleaving ==
    /\ Cardinality({t \in Threads : pc[t] \in {"sel1", "sel2", "data"}}) <= 1
    /\ \A t \in Threads :
          pc[t] = "data" =>
              /\ port.own1 = t
              /\ port.own2 = t
              /\ <<port.sel1, port.sel2>> = SelectCodes(t)

C7_Witness ==
    \E t \in Threads :
        /\ pc[t] = "data"
        /\ \A o \in Threads \ {t} : pc[o] = "lock"
        /\ port.own1 = t
        /\ port.own2 = t

\* a store call that has returned, given at least one character
StoreDone(u) == loc[u].fn = "store" /\ loc[u].done /\ loc[u].buf # <<>>

\* C8: store_slidebar_mode accepts exactly the texts that parse as one
\* hexadecimal value in 0x00..0xff and returns -EINVAL for every other text.
C8_AcceptsExactlyBytes ==
    \A u \in Users :
        StoreDone(u) =>
            LET r == sscanf_x(loc[u].buf) IN
            IF r.n = 1 /\ r.val <= 255
            THEN loc[u].ret = Len(loc[u].buf)
            ELSE loc[u].ret = -EINVAL

\* C9: a store call writes the mode register iff it succeeds: on success one
\* register operation whose data byte is the parsed value, and the return
\* value is count; on failure no port access and no lock operation.
C9_WriteIffSuccess ==
    \A u \in Users :
        StoreDone(u) =>
            IF loc[u].ret >= 0
            THEN /\ loc[u].ret = Len(loc[u].buf)
                 /\ loc[u].nlock = 1
                 /\ Len(loc[u].acc) = 3
                 /\ loc[u].acc[3] =
                       Access("out", SIO_DATA_PORT, sscanf_x(loc[u].buf).val)
                 /\ hw_mode = sscanf_x(loc[u].buf).val
            ELSE /\ loc[u].acc = <<>>
                 /\ loc[u].nlock = 0
                 /\ sio_lock = Free

(* ---------------------- register protocol claims ----------------------- *)

\* a thread that has taken the lock in its current call
InOp(t) == loc[t].nlock > 0

\* port accesses the current register operation of t has made so far
Progress(t) ==
    CASE ~InOp(t) -> 0
      [] pc[t] = "sel1" -> 0
      [] pc[t] = "sel2" -> 1
      [] pc[t] = "data" -> 2
      [] OTHER -> 3

\* the k-th access of t is a write of byte v
IsWrite(t, k, v) == loc[t].acc[k].dir = "out" /\ loc[t].acc[k].value = v

\* C12: every register operation makes three port accesses in a fixed order
\* while holding the lock: 0xf4, 0xbf, read for the position; 0xf7, 0x8b,
\* read for the mode; 0xf7, 0x8b, write of the 8-bit value for setting it.
C12_ThreeAccessesInOrder ==
    \A t \in Threads :
        /\ Len(loc[t].acc) = Progress(t)
        /\ loc[t].nlock <= 1
        /\ pc[t] \in {"sel1", "sel2", "data"} => sio_lock = t
        /\ Len(loc[t].acc) >= 1 =>
              IsWrite(t, 1, IF loc[t].fn = "filter" THEN 244 ELSE 247)
        /\ Len(loc[t].acc) >= 2 =>
              IsWrite(t, 2, IF loc[t].fn = "filter" THEN 191 ELSE 139)
        /\ Len(loc[t].acc) >= 3 =>
              /\ loc[t].acc[3].port = SIO_DATA_PORT
              /\ loc[t].acc[3].value \in 0..255
              /\ IF loc[t].fn = "store"
                 THEN IsWrite(t, 3, loc[t].mode % 256)
                 ELSE /\ loc[t].acc[3].dir = "in"
                      /\ loc[t].acc[3].value = loc[t].res

C12_Witness ==
    /\ loc[IRQ].done /\ Len(loc[IRQ].acc) = 3
    /\ \E u \in Users, w \in Users :
          /\ loc[u].fn = "show" /\ loc[u].done /\ Len(loc[u].acc) = 3
          /\ loc[w].fn = "store" /\ loc[w].done /\ Len(loc[w].acc) = 3
          /\ loc[w].mode > 255

PortsTouched ==
    {loc[t].acc[k].port : <<t, k>> \in
        {x \in Threads \X (1..3) : x[2] <= Len(loc[x[1]].acc)}}

\* C13 as stated: both select bytes go to one control port and the data
\* byte to a second port, so the protocol touches exactly two addresses.
C13_TwoPorts ==
    /\ \A t \in Threads :
          /\ Len(loc[t].acc) >= 2 => loc[t].acc[1].port = loc[t].acc[2].port
          /\ Len(loc[t].acc) >= 3 => loc[t].acc[3].port # loc[t].acc[1].port
    /\ Cardinality(PortsTouched) <= 2

\* C13 as amended: the first select byte is written to 0xff29, the second
\* to 0xff2a and the data byte is read or written on 0xff2b, in every
\* operation: the protocol touches exactly three addresses.
C13_ThreePorts ==
    /\ \A t \in Threads : \A k \in 1..Len(loc[t].acc) :
          loc[t].acc[k].port = <<65321, 65322, 65323>>[k]
    /\ PortsTouched \subseteq {65321, 65322, 65323}
    /\ (\E t \in Threads : Len(loc[t].acc) = 3) => Cardinality(PortsTouched) = 3

C13_Witness ==
    \A t \in Threads : Len(loc[t].acc) = 3 /\ loc[t].done

\* threads between taking and releasing the lock
Holders == {t \in Threads : pc[t] \in {"sel1", "sel2", "data", "unlock"}}

\* C14: the lock is held iff exactly one caller is inside a select, select,
\* access sequence; it is released before the operation returns, and is not
\* held while events are emitted, while the mode text is parsed, or across
\* two register operations.
C14_LockSpan ==
    /\ sio_lock # Free <=> Cardinality(Holders) = 1
    /\ Cardinality(Holders) <= 1
    /\ \A t \in Threads :
          /\ sio_lock = t <=> t \in Holders
          /\ pc[t] \in {"idle", "lock", "ret"} => sio_lock # t
          /\ loc[t].nlock <= 1
    /\ sio_lock = IRQ => (out # <<>> /\ ~out[Len(out)].done
                           /\ Len(out[Len(out)].evs) <= 1)

C14_Witness ==
    /\ pc[IRQ] = "ret"
    /\ sio_lock \in Users
    /\ \E u \in Users : pc[u] = "lock"

(* --------------------------- touched flag ------------------------------ *)

IsKey(e) == e.type = "EV_KEY"
KeyStream == SelectSeq(EventsOf(1, Len(out)), IsKey)

\* C17: touched equals the last touch-button value reported (false before
\* any), changes only while a recognised move or release byte is handled,
\* and every batch with an axis event ends with touched set.
C17_TouchedIsLastButton ==
    /\ touched = (KeyStream # <<>> /\ KeyStream[Len(KeyStream)] = Key(1))
    /\ \A i \in DoneIdx :
          /\ out[i].tch1 # out[i].tch0 => Recognized(out[i])
          /\ CountAxis(out[i].evs) > 0 => out[i].tch1
    /\ \A i \in Idx : i < Len(out) => out[i].tch1 = out[i + 1].tch0
    /\ (out # <<>> /\ out[Len(out)].done) => out[Len(out)].tch1 = touched

C17_Witness ==
    /\ Len(KeyStream) >= 3
    /\ ~touched
    /\ \E i \in DoneIdx : out[i].br = "move" /\ out[i].tch0

(* ----------------------- the two handler revisions --------------------- *)

\* the value the position register shows kbd_irq_handler for byte k: the
\* one slidebar_i8042_filter read for that byte, if it read
PosFor(k) == IF out[k].reads # <<>> THEN {out[k].reads[1]} ELSE PosVals

\* both handlers fed the same bytes, the IRQ revision after the filter
NextEquiv ==
    /\ UNCHANGED <<irq_cpu, life>>
    /\ \/ /\ \E b \in Bytes : /\ Len(out) < MaxEquivBytes
                              /\ Len(out_irq) = Len(out)
                              /\ slidebar_i8042_filter(b)
          /\ UNCHANGED irqrev
       \/ /\ loc[IRQ].fn = "filter"
          /\ slidebar_pos_get(IRQ)
          /\ UNCHANGED irqrev
       \/ filter_move_report /\ UNCHANGED irqrev
       \/ /\ Len(out_irq) < Len(out)
          /\ out[Len(out_irq) + 1].done
          /\ kbd_irq_handler(out[Len(out_irq) + 1].data)
       \/ /\ loc[IRQ].fn = "kbd_irq_handler"
          /\ slidebar_pos_get(IRQ)
          /\ pc[IRQ] = "data" => loc'[IRQ].res \in PosFor(Len(out_irq))
          /\ UNCHANGED irqrev
       \/ kbd_irq_move_report

SpecEquiv == Init /\ [][NextEquiv]_vars

\* 0x3b and 0xbb occur among the first n bytes only right after a 0xe0
WellFormed(n) ==
    \A i \in 1..n :
        out[i].data \in {SC_MOVE, SC_RELEASE} => AfterPrefix(i)

\* C19: on traffic where 0x3b and 0xbb only follow 0xe0, kbd_irq_handler
\* and slidebar_i8042_filter, given the same bytes and position values,
\* emit the same events for every byte.
C19_RevisionsAgree ==
    WellFormed(Len(out)) =>
        \A i \in 1..Len(out_irq) :
            /\ out_irq[i].data = out[i].data
            /\ out_irq[i].done => out_irq[i].evs = out[i].evs

C19_Witness ==
    /\ Len(out_irq) = 6
    /\ WellFormed(6)
    /\ \E i \in 1..6 : out_irq[i].reads # <<>> /\ out_irq[i].tch0
    /\ out_irq[6].data = SC_RELEASE
    /\ \A i \in 1..6 : out_irq[i].done

(* ------------------------- CPUs and interrupts ------------------------- *)

Cpus == {"cpu0", "cpu1"}

\* each user process runs on a CPU of its own
CpuOf(u) == IF u = "u1" THEN "cpu0" ELSE "cpu1"

\* a plain spin_lock, which leaves local interrupts enabled
LocalIrqOff_never(u) == FALSE

\* spin_lock_irqsave ... spin_unlock_irqrestore: local interrupts are off on
\* the CPU of u for as long as u holds sio_lock
LocalIrqOff(u) == sio_lock = u

IrqsOff(c) == \E u \in Users : CpuOf(u) = c /\ LocalIrqOff(u)

\* a user process runs unless its CPU is handling the keyboard interrupt
Running(u) == irq_cpu # CpuOf(u)

\* the keyboard interrupt is taken on a CPU whose interrupts are enabled
CpuIrqEntry ==
    /\ \E b \in Bytes, c \in Cpus :
          /\ Len(out) < MaxCpuBytes
          /\ ~IrqsOff(c)
          /\ slidebar_i8042_filter(b)
          /\ irq_cpu' = IF pc'[IRQ] = "idle" THEN NoCpu ELSE c
    /\ UNCHANGED <<irqrev, life>>

\* the interrupt handler goes on to its return
CpuIrqRun ==
    /\ \/ slidebar_pos_get(IRQ) /\ UNCHANGED irq_cpu
       \/ filter_move_report /\ irq_cpu' = NoCpu
    /\ UNCHANGED <<irqrev, life>>

\* sysfs calls started so far
CallsMade == ncalls["u1"] + ncalls["u2"]

\* a text store_slidebar_mode accepts and one it rejects
CpuInputs == {<<"9", "9">>, <<"g", "g">>}

\* a user process enters a sysfs handler
CpuUserCall(u) ==
    /\ Running(u)
    /\ CallsMade < MaxCpuCalls
    /\ \/ show_slidebar_mode(u)
       \/ \E buf \in CpuInputs : store_slidebar_mode(u, buf)
    /\ UNCHANGED <<irq_cpu, irqrev, life>>

\* a user process goes on in the handler it is in
CpuUserRun(u) ==
    /\ Running(u)
    /\ \/ slidebar_mode_get(u)
       \/ show_return(u)
       \/ slidebar_mode_set(u)
       \/ store_return(u)
    /\ UNCHANGED <<irq_cpu, irqrev, life>>

NextCpu ==
    \/ CpuIrqEntry
    \/ CpuIrqRun
    \/ \E u \in Users : CpuUserCall(u)
    \/ \E u \in Users : CpuUserRun(u)

\* every CPU keeps executing the code it is in
SpecCpu ==
    /\ Init
    /\ [][NextCpu]_vars
    /\ WF_vars(CpuIrqRun)
    /\ \A u \in Users : WF_vars(CpuUserRun(u))

\* C15: bytes are classified in arrival order, and the position read of a
\* move is made after its 0x3b is delivered and is complete, with its axis
\* event and sync emitted, before the next byte is classified, also while
\* mode reads and writes contend for the lock.
C15_ReadBracketed ==
    /\ \A i \in Idx :
          i < Len(out) => /\ out[i].done
                          /\ out[i + 1].ext0 = out[i].ext1
                          /\ out[i + 1].tch0 = out[i].tch1
    /\ \A i \in DoneIdx :
          (out[i].ext0 /\ out[i].data = SC_MOVE) =>
              /\ Len(out[i].reads) = 1
              /\ Len(out[i].acc) = 3
              /\ out[i].acc[3].value = out[i].reads[1]
              /\ Len(out[i].evs) >= 2
              /\ SubSeq(out[i].evs, Len(out[i].evs) - 1, Len(out[i].evs))
                    = <<Abs(out[i].reads[1]), Syn>>
    /\ pc[IRQ] # "idle" =>
          /\ out # <<>>
          /\ ~out[Len(out)].done
          /\ out[Len(out)].data = SC_MOVE
          /\ out[Len(out)].reads = <<>>
    /\ pc[IRQ] = "idle" => \A i \in Idx : out[i].done

\* the filter waits for the lock a user process holds, with bytes still
\* to come
C15_Witness ==
    /\ pc[IRQ] = "lock"
    /\ sio_lock \in Users
    /\ Len(out) < MaxCpuBytes
    /\ ~out[Len(out)].done

\* C16: the interrupt is never handled on a CPU whose interrupted code
\* holds sio_lock, and every register operation that has reached its
\* spin_lock_irqsave takes the lock and returns.
C16_NoDeadlock ==
    /\ [](sio_lock \in Users => irq_cpu # CpuOf(sio_lock))
    /\ \A t \in Threads : (pc[t] = "lock") ~> (pc[t] = "ret")

\* the filter spins on one CPU while a user process holds the lock on the
\* other
C16_Witness ==
    /\ pc[IRQ] = "lock"
    /\ irq_cpu = "cpu1"
    /\ sio_lock = "u1"
    /\ pc["u1"] = "data"

(* ------------------------- module load and unload ---------------------- *)
\* bytes the keyboard delivers while the module is loaded or unloaded
MaxLifeBytes == 2

\* error codes a failing kernel call hands back
KernelErrs == {-ENOMEM}

\* the module before slidebar_init of the filter revision is entered
Unloaded ==
    [rev |-> "filter", at |-> "init", pdev |-> "none", pdrv |-> "none",
     idev |-> "none", cb |-> FALSE, err |-> 0, fn |-> "slidebar_init",
     log |-> <<>>, checked |-> {}, faults |-> {}]

\* the module before slidebar_init of the IRQ revision is entered
UnloadedIrq == [Unloaded EXCEPT !.rev = "irq"]

Acquire(l, r) == [l EXCEPT !.log = Append(@, <<"acquire", r>>)]
Release(l, r) == [l EXCEPT !.log = Append(@, <<"release", r>>)]
At(l, a) == [l EXCEPT !.at = a]
Fail(l, e, a) == [l EXCEPT !.err = e, !.at = a]
Fault(l, f) == [l EXCEPT !.faults = @ \cup {f}]

\* a dereference of pointer p: a fault when p has not been checked
Deref(l, p) == IF p \in l.checked THEN l ELSE Fault(l, "unchecked_deref")

\* setup_platform_dev of the filter revision, one kernel call per step
setup_platform_dev ==
    /\ life.rev = "filter"
    /\ \/ /\ life.at = "platform_device_alloc"
          /\ \/ life' = At(Acquire([life EXCEPT !.pdev = "alloc"], "pdev"),
                           "groups")
             \/ life' = At(life, "groups")
       \/ /\ life.at = "groups"
          /\ IF life.pdev = "none"
             THEN \E a \in {"oops", "check_pdev"} :
                     life' = At(Fault(Deref(life, "pdev"), "null_deref"), a)
             ELSE life' = At(Deref(life, "pdev"), "check_pdev")
       \/ /\ life.at = "check_pdev"
          /\ LET l == [life EXCEPT !.checked = @ \cup {"pdev"}] IN
             IF life.pdev = "none"
             THEN life' = Fail(l, -ENOMEM, "failed")
             ELSE life' = At(l, "platform_device_add")
       \/ /\ life.at = "platform_device_add"
          /\ \/ life' = At([life EXCEPT !.pdev = "added"],
                           "platform_driver_register")
             \/ \E e \in KernelErrs :
                   life' = Fail(life, e, "err_free_platform_device")
       \/ /\ life.at = "err_free_platform_device"
          /\ life' = At(Release([life EXCEPT !.pdev = "put"], "pdev"), "failed")
    /\ UNCHANGED <<core, irq_cpu, irqrev>>

\* setup_platform_dev of the IRQ revision: the pointer is checked first
setup_platform_dev_irq ==
    /\ life.rev = "irq"
    /\ \/ /\ life.at = "platform_device_alloc"
          /\ LET l == [life EXCEPT !.checked = @ \cup {"pdev"}] IN
             \/ life' = At(Acquire([l EXCEPT !.pdev = "alloc"], "pdev"),
                           "platform_device_add")
             \/ life' = Fail(l, -ENOMEM, "failed")
       \/ /\ life.at = "platform_device_add"
          /\ \/ life' = At([life EXCEPT !.pdev = "added"],
                           "platform_driver_register")
             \/ \E e \in KernelErrs :
                   life' = Fail(life, e, "err_free_platform_device")
       \/ /\ life.at = "err_free_platform_device"
          /\ life' = At(Release([life EXCEPT !.pdev = "put"], "pdev"), "failed")
    /\ UNCHANGED <<core, irq_cpu, irqrev>>

\* register_platform_drv, the same in both revisions, and the goto its
\* failure takes in slidebar_init
register_platform_drv ==
    /\ life.at = "platform_driver_register"
    /\ life.fn = "slidebar_init"
    /\ \/ life' = At(Acquire([life EXCEPT !.pdrv = "registered"], "pdrv"),
                     IF life.rev = "filter" THEN "input_allocate_device"
                     ELSE "request_irq")
       \/ \E e \in KernelErrs :
             life' = Fail(life, e, IF life.rev = "filter"
                                   THEN "err_unregister_platform_dev"
                                   ELSE "platform_device_del")
    /\ UNCHANGED <<core, irq_cpu, irqrev>>

\* setup_input_dev of the filter revision
setup_input_dev ==
    /\ life.rev = "filter"
    /\ \/ /\ life.at = "input_allocate_device"
          /\ LET l == [life EXCEPT !.checked = @ \cup {"idev"}] IN
             \/ life' = At(Deref(Acquire([l EXCEPT !.idev = "alloc"], "idev"),
                                 "idev"), "i8042_install_filter")
             \/ life' = Fail(l, -ENOMEM, "err_unregister_platform_drv")
       \/ /\ life.at = "i8042_install_filter"
          /\ \/ life' = At(Acquire([life EXCEPT !.cb = TRUE], "cb"),
                           "input_register_device")
             \/ \E e \in KernelErrs : life' = Fail(life, e, "err_free_dev")
       \/ /\ life.at = "input_register_device"
          /\ \/ life' = At([life EXCEPT !.idev = "registered"], "loaded")
             \/ \E e \in KernelErrs : life' = Fail(life, e, "err_remove_filter")
       \/ /\ life.at = "err_remove_filter"
          /\ pc[IRQ] = "idle"
          /\ life' = At(Release([life EXCEPT !.cb = FALSE], "cb"), "err_free_dev")
       \/ /\ life.at = "err_free_dev"
          /\ life' = At(Release([life EXCEPT !.idev = "freed"], "idev"),
                        "err_unregister_platform_drv")
    /\ UNCHANGED <<core, irq_cpu, irqrev>>

\* remove_input_dev of the filter revision
remove_input_dev ==
    /\ life.rev = "filter"
    /\ \/ /\ life.at = "i8042_remove_filter"
          /\ pc[IRQ] = "idle"
          /\ life' = At(Release([life EXCEPT !.cb = FALSE], "cb"),
                        "input_unregister_device")
       \/ /\ life.at = "input_unregister_device"
          /\ life' = At(Release([life EXCEPT !.idev = "unregistered"], "idev"),
                        "platform_device_unregister")
    /\ UNCHANGED <<core, irq_cpu, irqrev>>

\* setup_input_dev of the IRQ revision
setup_input_dev_irq ==
    /\ life.rev = "irq"
    /\ life.fn = "slidebar_init"
    /\ \/ /\ life.at = "request_irq"
          /\ \/ life' = At(Acquire([life EXCEPT !.cb = TRUE], "cb"),
                           "input_allocate_device")
             \/ life' = Fail(life, -EBUSY, "err_unregister_platform_drv")
       \/ /\ life.at = "input_allocate_device"
          /\ LET l == [life EXCEPT !.checked = @ \cup {"idev"}] IN
             \/ life' = At(Deref(Acquire([l EXCEPT !.idev = "alloc"], "idev"),
                                 "idev"), "input_register_device")
             \/ life' = Fail(l, -ENOMEM, "err_free_irq")
       \/ /\ life.at = "input_register_device"
          /\ \/ life' = At([life EXCEPT !.idev = "registered"],
                           "sysfs_create_group")
             \/ \E e \in KernelErrs : life' = Fail(life, e, "err_free_dev")
       \/ /\ life.at = "err_free_dev"
          /\ life' = At(Release([life EXCEPT !.idev = "freed"], "idev"),
                        "err_free_irq")
       \/ /\ life.at = "err_free_irq"
          /\ pc[IRQ] = "idle"
          /\ life' = At(Release([life EXCEPT !.cb = FALSE], "cb"),
                        "err_unregister_platform_drv")
    /\ UNCHANGED <<core, irq_cpu, irqrev>>

\* setup_slidebar_mode_dev of the IRQ revision and, when it fails, the
\* goto err_remove_input_dev of slidebar_init
setup_slidebar_mode_dev ==
    /\ life.rev = "irq"
    /\ life.at = "sysfs_create_group"
    /\ \/ life' = At(Acquire(life, "group"), "loaded")
       \/ \E e \in KernelErrs : life' = Fail(life, e, "free_irq")
    /\ UNCHANGED <<core, irq_cpu, irqrev>>

\* remove_slidebar_mode_dev of the IRQ revision
remove_slidebar_mode_dev ==
    /\ life.rev = "irq"
    /\ life.at = "sysfs_remove_group"
    /\ life' = At(Release(life, "group"), "free_irq")
    /\ UNCHANGED <<core, irq_cpu, irqrev>>

\* remove_input_dev of the IRQ revision, called by slidebar_init on the
\* failure of setup_slidebar_mode_dev and by slidebar_exit
remove_input_dev_irq ==
    /\ life.rev = "irq"
    /\ \/ /\ life.at = "free_irq"
          /\ pc[IRQ] = "idle"
          /\ life' = At(Release([life EXCEPT !.cb = FALSE], "cb"),
                        "input_unregister_device")
       \/ /\ life.at = "input_unregister_device"
          /\ life' = At(Release([life EXCEPT !.idev = "unregistered"], "idev"),
                        "input_free_device")
       \/ /\ life.at = "input_free_device"
          /\ life' = At(Fault([life EXCEPT !.idev = "freed"],
                              "free_after_unregister"),
                        IF life.fn = "slidebar_init"
                        THEN "err_unregister_platform_drv"
                        ELSE "platform_device_del")
    /\ UNCHANGED <<core, irq_cpu, irqrev>>

\* unregister_platform_drv of the IRQ revision
unregister_platform_drv ==
    /\ life.rev = "irq"
    /\ \/ /\ life.at = "err_unregister_platform_drv"
          /\ life' = At(Release([life EXCEPT !.pdrv = "unregistered"], "pdrv"),
                        "platform_device_del")
       \/ /\ life.at = "platform_driver_unregister"
          /\ life' = At(Release([life EXCEPT !.pdrv = "unregistered"], "pdrv"),
                        "unloaded")
    /\ UNCHANGED <<core, irq_cpu, irqrev>>

\* remove_platform_dev of the IRQ revision
remove_platform_dev ==
    /\ life.rev = "irq"
    /\ \/ /\ life.at = "platform_device_del"
          /\ life' = At([life EXCEPT !.pdev = "deleted"], "platform_device_put")
       \/ /\ life.at = "platform_device_put"
          /\ life' = At(Release([life EXCEPT !.pdev = "put"], "pdev"),
                        IF life.fn = "slidebar_init" THEN "failed"
                        ELSE "platform_driver_unregister")
    /\ UNCHANGED <<core, irq_cpu, irqrev>>

\* slidebar_init of either revision: the DMI check; of the filter
\* revision: the unwinding at its labels
slidebar_init ==
    /\ \/ /\ life.at = "init"
          /\ \/ life' = At(life, "platform_device_alloc")
             \/ life' = Fail(life, -ENODEV, "failed")
       \/ /\ life.rev = "filter"
          /\ life.at = "err_unregister_platform_drv"
          /\ life' = At(Release([life EXCEPT !.pdrv = "unregistered"], "pdrv"),
                        "err_unregister_platform_dev")
       \/ /\ life.rev = "filter"
          /\ life.at = "err_unregister_platform_dev"
          /\ life' = At(Release([life EXCEPT !.pdev = "unregistered"], "pdev"),
                        "failed")
    /\ UNCHANGED <<core, irq_cpu, irqrev>>

\* slidebar_exit of either revision: its first call; of the filter
\* revision: the two unregistrations it makes itself
slidebar_exit ==
    /\ \/ /\ life.at = "loaded"
          /\ life' = At([life EXCEPT !.fn = "slidebar_exit"],
                        IF life.rev = "filter"
                        THEN "i8042_remove_filter" ELSE "sysfs_remove_group")
       \/ /\ life.rev = "filter"
          /\ life.at = "platform_device_unregister"
          /\ life' = At(Release([life EXCEPT !.pdev = "unregistered"], "pdev"),
                        "platform_driver_unregister")
       \/ /\ life.rev = "filter"
          /\ life.at = "platform_driver_unregister"
          /\ life' = At(Release([life EXCEPT !.pdrv = "unregistered"], "pdrv"),
                        "unloaded")
    /\ UNCHANGED <<core, irq_cpu, irqrev>>

\* input_report_key / input_report_abs / input_sync on slidebar_input_dev
input_report(l) ==
    IF l.idev = "none" THEN Fault(l, "report_null")
    ELSE IF l.idev \in {"freed", "unregistered"} THEN Fault(l, "report_freed")
    ELSE l

\* the i8042 core calls the installed filter with the next byte
LifeFilterByte ==
    /\ life.rev = "filter"
    /\ life.cb
    /\ Len(out) < MaxLifeBytes
    /\ \E b \in Bytes : slidebar_i8042_filter(b)
    /\ life' = IF out'[Len(out')].evs # <<>> THEN input_report(life) ELSE life
    /\ UNCHANGED <<irq_cpu, irqrev>>

\* the filter goes on with the position read of a move
LifeFilterRun ==
    /\ life.rev = "filter"
    /\ \/ /\ slidebar_pos_get(IRQ)
          /\ UNCHANGED life
       \/ /\ filter_move_report
          /\ life' = input_report(life)
    /\ UNCHANGED <<irq_cpu, irqrev>>

\* the keyboard interrupt calls the handler requested on KBD_IRQ
LifeIrqByte ==
    /\ life.rev = "irq"
    /\ life.cb
    /\ Len(out_irq) < MaxLifeBytes
    /\ \E b \in Bytes : kbd_irq_handler(b)
    /\ life' = IF out_irq'[Len(out_irq')].evs # <<>>
               THEN input_report(life) ELSE life
    /\ UNCHANGED irq_cpu

\* the handler goes on with the position read of a move
LifeIrqRun ==
    /\ life.rev = "irq"
    /\ \/ /\ slidebar_pos_get(IRQ)
          /\ UNCHANGED <<life, irqrev>>
       \/ /\ kbd_irq_move_report
          /\ life' = input_report(life)
    /\ UNCHANGED irq_cpu

InitLife ==
    /\ extended = FALSE
    /\ touched = FALSE
    /\ sio_lock = Free
    /\ port = [sel1 |-> 0, sel2 |-> 0, own1 |-> Free, own2 |-> Free]
    /\ hw_mode \in InitModes
    /\ pc = [t \in Threads |-> "idle"]
    /\ loc = [t \in Threads |-> NoLocals]
    /\ out = <<>>
    /\ ncalls = [u \in Users |-> 0]
    /\ irq_cpu = NoCpu
    /\ prev_scancode = 0
    /\ irq_touched = FALSE
    /\ out_irq = <<>>
    /\ life \in {Unloaded, UnloadedIrq}

NextLife ==
    \/ slidebar_init
    \/ setup_platform_dev
    \/ setup_platform_dev_irq
    \/ register_platform_drv
    \/ setup_input_dev
    \/ setup_input_dev_irq
    \/ setup_slidebar_mode_dev
    \/ remove_input_dev
    \/ remove_slidebar_mode_dev
    \/ remove_input_dev_irq
    \/ unregister_platform_drv
    \/ remove_platform_dev
    \/ slidebar_exit
    \/ LifeFilterByte
    \/ LifeFilterRun
    \/ LifeIrqByte
    \/ LifeIrqRun

SpecLife == InitLife /\ [][NextLife]_vars

\* the resources held after the first n entries of the log, the last
\* acquired last; a release of anything but the last marks the stack
RECURSIVE StackAfter(_, _)
StackAfter(log, n) ==
    IF n = 0 THEN <<>>
    ELSE LET s == StackAfter(log, n - 1)
             e == log[n]
         IN IF e[1] = "acquire" THEN Append(s, e[2])
            ELSE IF s # <<>> /\ s[Len(s)] = e[2]
                 THEN SubSeq(s, 1, Len(s) - 1)
                 ELSE Append(s, "misordered")

\* a failed slidebar_init holds nothing and has released in reverse order
Unwound ==
    life.at = "failed" =>
        /\ StackAfter(life.log, Len(life.log)) = <<>>
        /\ ~life.cb
        /\ life.pdev \notin {"alloc", "added"}
        /\ life.pdrv # "registered"
        /\ life.idev \notin {"alloc", "registered"}

\* C11: when setup of the filter revision reports failure, every resource
\* acquired before the failing step has been released in strict reverse
\* order, none twice, and no pointer is dereferenced before its allocation
\* has been checked.
C11_AllOrNothing ==
    life.rev = "filter" =>
        /\ Unwound
        /\ life.faults \cap {"unchecked_deref", "null_deref"} = {}

\* C18: in both revisions the keyboard callback is installed only while
\* slidebar_input_dev is allocated and not freed, and no event is reported
\* on a null or freed input device.
C18_CallbackOnlyWhileAllocated ==
    /\ life.cb => life.idev \in {"alloc", "registered"}
    /\ life.faults \cap {"report_null", "report_freed"} = {}

=============================================================================
